---- MODULE Spec2Model ----
(***************************************************************************)
(* The injected-wallet connector of packages/connectors/src/injected.ts:    *)
(* provider discovery (getWindowProvider, getProvider, findProvider) and    *)
(* the connect / disconnect / isAuthorized / switchChain state machine with *)
(* its provider event handlers.  Strings the code takes apart (target       *)
(* identifiers, display names, capability flags) are sequences of           *)
(* one-character strings, so that capitalisation is computed.               *)
(***************************************************************************)
EXTENDS Integers, Sequences, FiniteSets, TLC

\* ---------------------------------------------------------------- strings
\* WindowProviderFlags: the capability flags (keys of a provider object).
isOkxWallet == <<"i","s","O","k","x","W","a","l","l","e","t">>
isMetaMask == <<"i","s","M","e","t","a","M","a","s","k">>
isBraveWallet == <<"i","s","B","r","a","v","e","W","a","l","l","e","t">>
isCoinbaseWallet == <<"i","s","C","o","i","n","b","a","s","e","W","a","l","l","e","t">>
isPhantom == <<"i","s","P","h","a","n","t","o","m">>
isRainbow == <<"i","s","R","a","i","n","b","o","w">>

\* Target identifiers and connector ids.
id_coinbaseWallet == <<"c","o","i","n","b","a","s","e","W","a","l","l","e","t">>
id_metaMask == <<"m","e","t","a","M","a","s","k">>
id_phantom == <<"p","h","a","n","t","o","m">>
id_rainbow == <<"r","a","i","n","b","o","w">>
id_injected == <<"i","n","j","e","c","t","e","d">>
id_custom == <<"c","u","s","t","o","m">>

\* Display names.
name_CoinbaseWallet == <<"C","o","i","n","b","a","s","e"," ","W","a","l","l","e","t">>
name_MetaMask == <<"M","e","t","a","M","a","s","k">>
name_Phantom == <<"P","h","a","n","t","o","m">>
name_Injected == <<"I","n","j","e","c","t","e","d">>
name_Custom == <<"C","u","s","t","o","m"," ","W","a","l","l","e","t">>

\* String.prototype.toUpperCase on one character (ASCII letters).
Lower == <<"a","b","c","d","e","f","g","h","i","j","k","l","m","n","o","p","q","r","s","t","u","v","w","x","y","z">>
Upper == <<"A","B","C","D","E","F","G","H","I","J","K","L","M","N","O","P","Q","R","S","T","U","V","W","X","Y","Z">>
ToUpperCase(c) ==
  IF \E i \in 1..Len(Lower) : Lower[i] = c
  THEN Upper[CHOOSE i \in 1..Len(Lower) : Lower[i] = c]
  ELSE c

\* The identifier as it is written: what the name would be without
\* toUpperCase().
AsWritten(s) == s

\* `${target[0]!.toUpperCase()}${target.slice(1)}`
Capitalize(s) == <<ToUpperCase(s[1])>> \o SubSeq(s, 2, Len(s))

\* `is${target[0]!.toUpperCase()}${target.slice(1)}`
FlagOf(s) == <<"i", "s">> \o Capitalize(s)

\* ------------------------------------------------------- optional values
\* undefined is the empty sequence, a present value v is <<v>>.
None == <<>>
Some(v) == <<v>>
IsSome(o) == Len(o) > 0
Get(o) == o[1]

\* ------------------------------------------------------ provider locator
\* A provider object: the capability flags it declares and which of the
\* MetaMask-internal fields (_events, _state) it exposes.
Internals == {"_events", "_state"}

\* A findProvider condition: a flag name, or a predicate function.
FlagCondition(flag) == [kind |-> "flag", flag |-> flag]
MetaMaskCondition == [kind |-> "metaMask", flag |-> <<>>]
TrueCondition == [kind |-> "true", flag |-> <<>>]

\* The flags of other wallets that set isMetaMask.
MetaMaskImpersonationFlags ==
  { <<"i","s","A","p","e","x","W","a","l","l","e","t">>,
    <<"i","s","A","v","a","l","a","n","c","h","e">>,
    <<"i","s","B","i","t","K","e","e","p">>,
    <<"i","s","B","l","o","c","k","W","a","l","l","e","t">>,
    <<"i","s","K","u","C","o","i","n","W","a","l","l","e","t">>,
    <<"i","s","M","a","t","h","W","a","l","l","e","t">>,
    isOkxWallet,
    <<"i","s","O","K","E","x","W","a","l","l","e","t">>,
    <<"i","s","O","n","e","I","n","c","h","I","O","S","W","a","l","l","e","t">>,
    <<"i","s","O","n","e","I","n","c","h","A","n","d","r","o","i","d","W","a","l","l","e","t">>,
    <<"i","s","O","p","e","r","a">>,
    <<"i","s","P","o","r","t","a","l">>,
    <<"i","s","R","a","b","b","y">>,
    <<"i","s","T","o","k","e","n","P","o","c","k","e","t">>,
    <<"i","s","T","o","k","e","n","a","r","y">>,
    <<"i","s","Z","e","r","i","o","n">> }

\* The Brave test of targetMap.metaMask.provider: reject a provider that
\* declares isBraveWallet and has neither _events nor _state.
BraveShim(p) ==
  /\ isBraveWallet \in p.flags
  /\ "_events" \notin p.props
  /\ "_state" \notin p.props

\* An empty block-list: what the loop would answer if it tested no flag.
ImpersonatesNothing(p) == FALSE

\* The block-list loop of targetMap.metaMask.provider.
Impersonates(p) == \E flag \in MetaMaskImpersonationFlags : flag \in p.flags

\* The predicate targetMap.metaMask hands to findProvider.
isMetaMaskProvider(p) ==
  IF isMetaMask \notin p.flags THEN FALSE
  ELSE IF BraveShim(p) THEN FALSE
  ELSE IF Impersonates(p) THEN FALSE
  ELSE TRUE

\* findProvider's inner isProvider(provider).
isProvider(condition, p) ==
  CASE condition.kind = "flag" -> condition.flag \in p.flags
    [] condition.kind = "metaMask" -> isMetaMaskProvider(p)
    [] OTHER -> TRUE

\* Array.prototype.find: the first element satisfying the condition.
Find(list, condition) ==
  IF \E i \in 1..Len(list) : isProvider(condition, list[i])
  THEN LET first == CHOOSE i \in 1..Len(list) :
                      /\ isProvider(condition, list[i])
                      /\ \A j \in 1..(i - 1) : ~isProvider(condition, list[j])
       IN  Some(list[first])
  ELSE None

\* findProvider(window, condition).  win.providers is window.ethereum.providers
\* (an array, possibly empty, is truthy).
findProvider(win, condition) ==
  IF IsSome(win.ethereum) /\ IsSome(win.providers)
  THEN Find(Get(win.providers), condition)
  ELSE IF IsSome(win.ethereum) /\ isProvider(condition, Get(win.ethereum))
  THEN win.ethereum
  ELSE None

\* The `provider` member of a descriptor: a flag name or a function of window.
FlagProvider(flag) == [kind |-> "flag", arg |-> flag]
FunctionProvider(fn) == [kind |-> "function", arg |-> fn]

\* targetMap: the well-known descriptors.
TargetMapKeys == {id_coinbaseWallet, id_metaMask, id_phantom}
targetMap(key) ==
  CASE key = id_coinbaseWallet ->
         [name |-> name_CoinbaseWallet,
          provider |-> FunctionProvider(id_coinbaseWallet),
          features |-> {}]
    [] key = id_metaMask ->
         [name |-> name_MetaMask,
          provider |-> FunctionProvider(id_metaMask),
          features |-> {"wallet_requestPermissions"}]
    [] key = id_phantom ->
         [name |-> name_Phantom,
          provider |-> FunctionProvider(id_phantom),
          features |-> {}]

\* The descriptor synthesized for a string target that targetMap lacks.
SynthesizedTarget(id) ==
  [name |-> Capitalize(id), provider |-> FlagProvider(FlagOf(id)), features |-> {}]

WithId(descriptor, id) ==
  [id |-> id, name |-> descriptor.name, provider |-> descriptor.provider,
   features |-> descriptor.features]

\* The descriptor returned when no target applies.
InjectedTarget ==
  [id |-> id_injected, name |-> name_Injected,
   provider |-> FunctionProvider(id_injected), features |-> {}]

\* parameters.target: undefined, a string identifier, or a function whose
\* call yields a descriptor or undefined.
NoTarget == [kind |-> "undefined", id |-> <<>>, result |-> None]
StringTarget(id) == [kind |-> "string", id |-> id, result |-> None]
FunctionTarget(result) == [kind |-> "function", id |-> <<>>, result |-> result]

getWindowProvider(tgt) ==
  IF tgt.kind = "function" /\ IsSome(tgt.result) THEN Get(tgt.result)
  ELSE IF tgt.kind = "string"
  THEN WithId(IF tgt.id \in TargetMapKeys THEN targetMap(tgt.id)
              ELSE SynthesizedTarget(tgt.id), tgt.id)
  ELSE InjectedTarget

\* get id() / get name()
ConnectorId(tgt) == getWindowProvider(tgt).id
ConnectorName(tgt) == getWindowProvider(tgt).name

\* The provider(window) functions of the descriptors.
ProviderFunction(fn, win) ==
  CASE fn = id_coinbaseWallet ->
         IF IsSome(win.coinbaseWalletExtension) THEN win.coinbaseWalletExtension
         ELSE findProvider(win, FlagCondition(isCoinbaseWallet))
    [] fn = id_metaMask -> findProvider(win, MetaMaskCondition)
    [] fn = id_phantom ->
         IF IsSome(win.phantom) THEN win.phantom
         ELSE findProvider(win, FlagCondition(isPhantom))
    [] OTHER -> win.ethereum

\* The condition getProvider scans with when the descriptor's provider is
\* a flag name.
StringProviderCondition(flag) == TrueCondition

\* getProvider(): undefined without a window.
getProvider(tgt, win) ==
  IF ~win.defined THEN None
  ELSE LET windowProvider == getWindowProvider(tgt)
       IN  IF windowProvider.provider.kind = "function"
           THEN ProviderFunction(windowProvider.provider.arg, win)
           ELSE findProvider(win, StringProviderCondition(windowProvider.provider.arg))

\* ------------------------------------------------------------- the state
VARIABLES
  target,          \* parameters.target
  window,          \* the global window object (typeof window, window.ethereum, ...)
  found,           \* the value the last getProvider() probe resolved to
  shownName,       \* the value the last read of connector.name gave
  shimDisconnect,  \* parameters.shimDisconnect ?? true
  asyncInject,     \* parameters.unstable_shimAsyncInject
  hasStorage,      \* whether config.storage is defined
  shim,            \* whether storage holds `${id}.connected`
  lis,             \* the provider's listener registry: handlers per event
  winLis,          \* 'ethereum#initialized' listeners registered on window
  conn,            \* the connect() call in flight
  disc,            \* the disconnect() call in flight
  auth,            \* the isAuthorized() call in flight
  sw,              \* the switchChain() calls in flight, by caller
  qry,             \* the getAccounts() / getChainId() call in flight
  hs,              \* provider event handlers suspended at an await
  pend,            \* the provider event being dispatched to its handlers
  ret,             \* the calls and handler invocations the last step completed
  quiet,           \* disconnect() returned and no connect()/onConnect ran since
  setupDone,       \* whether setup() has run
  calls,           \* calls and provider events so far
  overlap,         \* a disconnect() run inside the suspended connect() call
  budget           \* calls and provider events the run may make

vars ==
  << target, window, found, shownName, shimDisconnect, asyncInject, hasStorage,
     shim, lis, winLis, conn, disc, auth, sw, qry, hs, pend, ret, quiet,
     setupDone, calls, overlap, budget >>

\* ------------------------------------------------------------- bounds
\* Longest window.ethereum.providers array of the locator's inputs.
MaxProviders == 2
\* Calls into the connector plus provider events in one run.
MaxCalls == 2
\* Handler invocations suspended at an await at one time.
MaxHandlers == 2

\* ------------------------------------------------- the provider protocol
\* EIP-1193 error codes the code tests for.
UserRejectedCode == 4001
ChainNotAddedCode == 4902
ResourceUnavailableCode == -32002
ReconnectingCode == 1013
\* A thrown value: its class, its code and its data.originalError.code.
Error(name, code, nested) == [name |-> name, code |-> code, nested |-> nested]
\* The errors a provider request may be rejected with where the code around
\* it tests for the given codes: one error per tested code and one with a
\* code that no test names (-32603).
Rejections(codes) == {Error("ProviderRpcError", c, 0) : c \in codes \cup {-32603}}
\* MetaMask Mobile wraps the code of a missing chain in data.originalError.
WrappedChainNotAdded == Error("ProviderRpcError", -32603, ChainNotAddedCode)
StorageError == Error("Error", 0, 0)
ProviderNotFoundError == Error("ProviderNotFoundError", 0, 0)
UserRejectedRequestError == Error("UserRejectedRequestError", UserRejectedCode, 0)

\* Account lists a provider may answer with, and the chains it may be on.
AccountLists == {<<>>, <<"0xA">>}
\* eth_requestAccounts resolves to a non-empty list or rejects (EIP-1102).
GrantedAccountLists == AccountLists \ {<<>>}
ChainIds == {1, 2}
\* config.chains
ConfiguredChains == {1}

ProviderEvents == {"accountsChanged", "chainChanged", "connect", "disconnect"}

\* provider.on(event, handler)
On(registry, event) == [registry EXCEPT ![event] = @ + 1]

\* provider.removeListener(event, handler).  A handler made by
\* this.f.bind(this) at the call is a new function object, which was never
\* registered; this.onChainChanged is the registered function itself.
RemoveListener(registry, event, isRegisteredObject) ==
  IF isRegisteredObject /\ registry[event] > 0
  THEN [registry EXCEPT ![event] = @ - 1]
  ELSE registry

\* The listener calls of connect() and onConnect().
AttachConnected(registry) ==
  On(On(On(RemoveListener(registry, "connect", FALSE),
           "accountsChanged"), "chainChanged"), "disconnect")

\* The listener calls of disconnect() and onDisconnect().
AttachDisconnected(registry) ==
  On(RemoveListener(RemoveListener(RemoveListener(registry,
       "accountsChanged", FALSE), "chainChanged", TRUE), "disconnect", FALSE),
     "connect")

\* await this.getProvider() in the current environment
Provider == getProvider(target, window)
\* getWindowProvider().features?.includes('wallet_requestPermissions')
canSelectAccount == "wallet_requestPermissions" \in getWindowProvider(target).features

\* A provider event is dispatched to its handlers synchronously: nothing
\* else runs until every handler has been called.
Dispatching == pend.n > 0
MayCall == setupDone /\ ~Dispatching /\ calls < budget

\* What a step reports in ret: the records of the calls and handler
\* invocations it completed, in order.
Returned(op, r) == IF r.pc = "done" THEN << [op |-> op, r |-> r] >> ELSE <<>>

\* A step of connect() or onConnect ends the quiet period after disconnect().
Disturbed(a) == [a EXCEPT !.after = FALSE]

\* ---------------------------------------------------------- switchChain
Callers == {"app", "connect"}

\* The switchChain() call that connect() makes.
ConnectSwitch == sw["connect"]

SwIdle ==
  [pc |-> "idle", chainId |-> 0, reqDone |-> FALSE, confirmed |-> FALSE,
   armed |-> FALSE, via |-> "", added |-> FALSE, requery |-> 0, res |-> "",
   cause |-> "", failedAt |-> "", code |-> 0, reqs |-> {}]

\* The emitter.once('change') listener of a call that left Promise.all can
\* no longer resolve anything: it is not tracked further.
SwReturn(s) == [s EXCEPT !.pc = "done", !.res = "ok", !.armed = FALSE]
SwThrow(s, name, cause, at) ==
  [s EXCEPT !.pc = "done", !.res = name, !.cause = cause, !.failedAt = at,
            !.armed = FALSE]

\* switchChain up to its first await: the provider and chain look-ups, the
\* wallet_switchEthereumChain request and the emitter.once('change') listener.
SwitchBegin(chainId) ==
  LET s == [SwIdle EXCEPT !.chainId = chainId]
  IN  IF ~IsSome(Provider)
      THEN SwThrow(s, "ProviderNotFoundError", "", "getProvider")
      ELSE IF chainId \notin ConfiguredChains
      THEN SwThrow(s, "SwitchChainError", "ChainNotConfiguredError", "chains.find")
      ELSE [s EXCEPT !.pc = "switching", !.armed = TRUE,
                     !.reqs = {"wallet_switchEthereumChain"}]

\* A catch block that wraps whatever the switch request threw.
SwitchCatchWrapping(s, error) ==
  SwThrow([s EXCEPT !.code = error.code], "SwitchChainError", error.name,
          "wallet_switchEthereumChain")

\* The catch block of switchChain for an error of the switch request.
SwitchCatch(s, error) ==
  IF error.code = ChainNotAddedCode \/ error.nested = ChainNotAddedCode
  THEN [s EXCEPT !.pc = "adding", !.armed = FALSE,
                 !.via = IF error.code = ChainNotAddedCode THEN "code" ELSE "nested",
                 !.reqs = @ \cup {"wallet_addEthereumChain"}]
  ELSE LET t == [s EXCEPT !.code = error.code]
       IN  IF error.code = UserRejectedCode
           THEN SwThrow(t, "UserRejectedRequestError", error.name,
                        "wallet_switchEthereumChain")
           ELSE SwThrow(t, "SwitchChainError", error.name,
                        "wallet_switchEthereumChain")

\* A once('change') handler that resolves for any chain id.
OnceChangeAnyChain(s, chainId) ==
  IF ~s.armed THEN s
  ELSE IF s.pc = "switching" /\ s.reqDone
  THEN SwReturn([s EXCEPT !.armed = FALSE, !.confirmed = TRUE])
  ELSE [s EXCEPT !.armed = FALSE, !.confirmed = TRUE]

\* The handler registered with config.emitter.once('change', ...): it is
\* removed by the first 'change' event, and resolves only for its chain id.
\* chainId 0 is a 'change' event without a chainId (an account change).
OnceChange(s, chainId) ==
  IF ~s.armed THEN s
  ELSE IF chainId # s.chainId THEN [s EXCEPT !.armed = FALSE]
  ELSE IF s.pc = "switching" /\ s.reqDone
  THEN SwReturn([s EXCEPT !.armed = FALSE, !.confirmed = TRUE])
  ELSE [s EXCEPT !.armed = FALSE, !.confirmed = TRUE]

\* A switchChain record after a step: the application's call is over once it
\* is done; connect() still has to read the outcome of the call it made.
SwSettle(c, s) ==
  IF s.pc # "done" THEN s
  ELSE IF c = "app" THEN SwIdle
  ELSE [SwIdle EXCEPT !.pc = "done", !.chainId = s.chainId, !.res = s.res]

\* config.emitter.emit('change', ...) as the switchChain calls see it.
EmitChange(switches, chainId) ==
  [c \in Callers |-> SwSettle(c, OnceChange(switches[c], chainId))]

\* The switchChain calls that an emitted 'change' event completes.
ChangeReturned(switches, chainId, c) ==
  IF switches[c].pc = "switching"
  THEN Returned("switchChain", OnceChange(switches[c], chainId))
  ELSE <<>>
ChangeReturns(switches, chainId) ==
  ChangeReturned(switches, chainId, "app") \o ChangeReturned(switches, chainId, "connect")

\* -------------------------------------------------------------- connect
ConnIdle ==
  [pc |-> "idle", chainId |-> 0, accounts |-> <<>>, cur |-> 0, switched |-> "",
   requested |-> FALSE, attached |-> FALSE, wrote |-> FALSE, res |-> "",
   failedAt |-> "", code |-> 0]

\* A call record after a step: the call is over once it is done.
ConnSettle(c) == IF c.pc = "done" THEN ConnIdle ELSE c

\* A catch block that rethrows what it caught: connect() without the tests
\* of error.code.
ConnectRethrow(c, error, at) ==
  [ConnIdle EXCEPT
            !.pc = "done", !.failedAt = at, !.code = error.code,
            !.requested = c.requested, !.attached = c.attached,
            !.wrote = c.wrote, !.switched = c.switched, !.res = error.name]

\* The catch block of connect().
ConnectCatch(c, error, at) ==
  [ConnIdle EXCEPT
            !.pc = "done", !.failedAt = at, !.code = error.code,
            !.requested = c.requested, !.attached = c.attached,
            !.wrote = c.wrote, !.switched = c.switched,
            !.res = IF error.code = UserRejectedCode
                    THEN "UserRejectedRequestError"
                    ELSE IF error.code = ResourceUnavailableCode
                    THEN "ResourceUnavailableRpcError"
                    ELSE error.name]

\* provider.request({ method })
ConnRequest(c, method) == [c EXCEPT !.pc = method, !.requested = TRUE]

\* connect() without its account prompts: straight to getChainId().
ConnAfterShimUnprompted(c, isDisconnected) ==
  ConnRequest([c EXCEPT !.attached = TRUE], "eth_chainId")

\* connect() from the shim read to the first provider request.
ConnAfterShim(c, isDisconnected) ==
  IF canSelectAccount /\ isDisconnected /\ IsSome(Provider)
  THEN ConnRequest(c, "eth_accounts")
  ELSE ConnRequest(c, "eth_requestAccounts")

\* connect() from the resolved accounts to the eth_chainId request of
\* getChainId(); the listeners are attached in between.
ConnListen(c) ==
  IF IsSome(Provider)
  THEN ConnRequest([c EXCEPT !.attached = TRUE], "eth_chainId")
  ELSE ConnectCatch([c EXCEPT !.attached = TRUE], ProviderNotFoundError, "eth_chainId")

\* connect() from the end of the chain switch to the shim write.
ConnPersist(c) ==
  IF shimDisconnect /\ hasStorage
  THEN [c EXCEPT !.pc = "setItem"]
  ELSE [c EXCEPT !.pc = "done", !.res = "ok"]

\* connect() up to its first await.
ConnectBegin(chainId) ==
  LET c == [ConnIdle EXCEPT !.chainId = chainId]
  IN  IF ~IsSome(Provider)
      THEN [c EXCEPT !.pc = "done", !.res = "ProviderNotFoundError",
                     !.failedAt = "getProvider"]
      ELSE IF shimDisconnect /\ hasStorage
      THEN [c EXCEPT !.pc = "getItem"]
      ELSE ConnAfterShim(c, shimDisconnect)

\* Every step of connect(): c is the call's record after the step.
ConnectStep(c) ==
  /\ conn' = ConnSettle(c)
  /\ ret' = Returned("connect", c)
  /\ quiet' = FALSE
  /\ auth' = Disturbed(auth)
  /\ overlap' = IF conn.pc = "idle" THEN "none"
                ELSE IF c.pc = "done" /\ overlap = "started" THEN "none"
                ELSE overlap

ConnectCall(chainId) ==
  /\ MayCall
  /\ conn.pc = "idle"
  /\ calls' = calls + 1
  /\ ConnectStep(ConnectBegin(chainId))
  /\ UNCHANGED << target, window, found, shownName, shimDisconnect,
                  asyncInject, hasStorage, shim, lis, winLis,
                  disc, sw, qry, hs, pend, setupDone, budget >>

\* await config.storage?.getItem(`${this.id}.connected`)
ConnectGetItem ==
  /\ ~Dispatching
  /\ conn.pc = "getItem"
  /\ \/ ConnectStep(ConnAfterShim(conn, ~shim))
     \/ ConnectStep(ConnectCatch(conn, StorageError, "getItem"))
  /\ UNCHANGED << target, window, found, shownName, shimDisconnect,
                  asyncInject, hasStorage, shim, lis, winLis,
                  disc, sw, qry, hs, pend, setupDone, calls,
                  budget >>

\* accounts = await this.getAccounts().catch(() => null)
ConnectEthAccounts ==
  /\ ~Dispatching
  /\ conn.pc = "eth_accounts"
  /\ \/ \E r \in AccountLists :
          ConnectStep(IF Len(r) > 0
                      THEN ConnRequest([conn EXCEPT !.accounts = r],
                                       "wallet_requestPermissions")
                      ELSE ConnRequest(conn, "eth_requestAccounts"))
     \/ ConnectStep(ConnRequest(conn, "eth_requestAccounts"))
  /\ UNCHANGED << target, window, found, shownName, shimDisconnect,
                  asyncInject, hasStorage, shim, lis, winLis,
                  disc, sw, qry, hs, pend, setupDone, calls,
                  budget >>

\* await provider.request({ method: 'wallet_requestPermissions', ... })
ConnectPermissions ==
  /\ ~Dispatching
  /\ conn.pc = "wallet_requestPermissions"
  /\ \/ \E r \in AccountLists :
          IF Len(r) > 0
          THEN /\ ConnectStep(ConnListen([conn EXCEPT !.accounts = r]))
               /\ lis' = AttachConnected(lis)
          ELSE /\ ConnectStep(ConnRequest([conn EXCEPT !.accounts = r],
                                          "eth_requestAccounts"))
               /\ lis' = lis
     \/ \E e \in Rejections({UserRejectedCode, ResourceUnavailableCode}) :
          IF e.code = UserRejectedCode
          THEN /\ ConnectStep(ConnectCatch(conn, UserRejectedRequestError,
                                           "wallet_requestPermissions"))
               /\ lis' = lis
          ELSE IF e.code = ResourceUnavailableCode
          THEN /\ ConnectStep(ConnectCatch(conn, e, "wallet_requestPermissions"))
               /\ lis' = lis
          ELSE /\ ConnectStep(ConnListen(conn))
               /\ lis' = AttachConnected(lis)
  /\ UNCHANGED << target, window, found, shownName, shimDisconnect,
                  asyncInject, hasStorage, shim, winLis, disc,
                  sw, qry, hs, pend, setupDone, calls, budget >>

\* await provider.request({ method: 'eth_requestAccounts' })
ConnectRequestAccounts ==
  /\ ~Dispatching
  /\ conn.pc = "eth_requestAccounts"
  /\ \/ \E r \in GrantedAccountLists :
          /\ ConnectStep(ConnListen([conn EXCEPT !.accounts = r]))
          /\ lis' = AttachConnected(lis)
     \/ \E e \in Rejections({UserRejectedCode, ResourceUnavailableCode}) :
          /\ ConnectStep(ConnectCatch(conn, e, "eth_requestAccounts"))
          /\ lis' = lis
  /\ UNCHANGED << target, window, found, shownName, shimDisconnect,
                  asyncInject, hasStorage, shim, winLis, disc,
                  sw, qry, hs, pend, setupDone, calls, budget >>

\* let currentChainId = await this.getChainId(), and the call of switchChain
ConnectChainId ==
  /\ ~Dispatching
  /\ conn.pc = "eth_chainId"
  /\ \/ \E cur \in ChainIds :
          IF conn.chainId # 0 /\ cur # conn.chainId
          THEN /\ ConnectStep([conn EXCEPT !.cur = cur, !.pc = "switchChain"])
               /\ sw' = [sw EXCEPT !["connect"] = SwitchBegin(conn.chainId)]
          ELSE /\ ConnectStep(ConnPersist([conn EXCEPT !.cur = cur]))
               /\ sw' = sw
     \/ \E e \in Rejections({UserRejectedCode, ResourceUnavailableCode}) :
          /\ ConnectStep(ConnectCatch(conn, e, "eth_chainId"))
          /\ sw' = sw
  /\ UNCHANGED << target, window, found, shownName, shimDisconnect,
                  asyncInject, hasStorage, shim, lis, winLis,
                  disc, qry, hs, pend, setupDone, calls, budget >>

\* connect() without the catch on its switchChain() call: a failed switch
\* fails the call.
ConnectSwitchedUncaught ==
  /\ ~Dispatching
  /\ conn.pc = "switchChain"
  /\ ConnectSwitch.pc = "done"
  /\ ConnectStep(IF ConnectSwitch.res = "ok"
                 THEN ConnPersist([conn EXCEPT !.switched = "ok",
                                               !.cur = conn.chainId])
                 ELSE ConnectCatch([conn EXCEPT !.switched = "failed"],
                                   Error(ConnectSwitch.res, 0, 0), "switchChain"))
  /\ sw' = [sw EXCEPT !["connect"] = SwIdle]
  /\ UNCHANGED << target, window, found, shownName, shimDisconnect,
                  asyncInject, hasStorage, shim, lis, winLis,
                  disc, qry, hs, pend, setupDone, calls, budget >>

\* await this.switchChain?.({ chainId }).catch(() => ({ id: currentChainId }))
ConnectSwitched ==
  /\ ~Dispatching
  /\ conn.pc = "switchChain"
  /\ sw["connect"].pc = "done"
  /\ ConnectStep(ConnPersist([conn EXCEPT
         !.switched = IF sw["connect"].res = "ok" THEN "ok" ELSE "failed",
         !.cur = IF sw["connect"].res = "ok" THEN conn.chainId ELSE @]))
  /\ sw' = [sw EXCEPT !["connect"] = SwIdle]
  /\ UNCHANGED << target, window, found, shownName, shimDisconnect,
                  asyncInject, hasStorage, shim, lis, winLis,
                  disc, qry, hs, pend, setupDone, calls, budget >>

\* A setItem that stores the flag and rejects all the same.
ConnectSetItemStoring ==
  /\ ~Dispatching
  /\ conn.pc = "setItem"
  /\ ConnectStep(ConnectCatch(conn, StorageError, "setItem"))
  /\ shim' = TRUE
  /\ UNCHANGED << target, window, found, shownName, shimDisconnect,
                  asyncInject, hasStorage, lis, winLis, disc, sw,
                  qry, hs, pend, setupDone, calls, budget >>

\* await config.storage?.setItem(`${this.id}.connected`, true)
ConnectSetItem ==
  /\ ~Dispatching
  /\ conn.pc = "setItem"
  /\ \/ /\ ConnectStep([conn EXCEPT !.pc = "done", !.res = "ok", !.wrote = TRUE])
        /\ shim' = TRUE
     \/ /\ ConnectStep(ConnectCatch(conn, StorageError, "setItem"))
        /\ shim' = shim
  /\ UNCHANGED << target, window, found, shownName, shimDisconnect,
                  asyncInject, hasStorage, lis, winLis, disc, sw,
                  qry, hs, pend, setupDone, calls, budget >>

\* ----------------------------------------------------------- disconnect
DiscIdle == [pc |-> "idle", res |-> ""]
DiscDone(res) == [pc |-> "done", res |-> res]
DiscSettle(d) == IF d.pc = "done" THEN DiscIdle ELSE d

\* connect() is suspended at an await before its setItem call: what it
\* writes to storage, it has yet to ask for.
ConnectSuspended == conn.pc \notin {"idle", "setItem"}

\* disconnect() up to its first await.
DisconnectBegin ==
  IF ~IsSome(Provider) THEN DiscDone("ProviderNotFoundError")
  ELSE IF shimDisconnect /\ hasStorage THEN [pc |-> "removeItem", res |-> ""]
  ELSE DiscDone("ok")

\* Every step of disconnect(): d is the call's record after the step.
DisconnectStep(d) ==
  /\ disc' = DiscSettle(d)
  /\ ret' = Returned("disconnect", d)
  /\ quiet' = IF d.res = "ok" THEN TRUE ELSE quiet
  /\ overlap' = IF overlap = "done" THEN "done"
                ELSE IF d.pc = "removeItem"
                THEN IF ConnectSuspended THEN "started" ELSE "none"
                ELSE IF d.res = "ok" /\ overlap = "started" /\ ConnectSuspended
                THEN "done"
                ELSE "none"

DisconnectCall ==
  /\ MayCall
  /\ disc.pc = "idle"
  /\ calls' = calls + 1
  /\ DisconnectStep(DisconnectBegin)
  /\ lis' = IF IsSome(Provider) THEN AttachDisconnected(lis) ELSE lis
  /\ UNCHANGED << target, window, found, shownName, shimDisconnect,
                  asyncInject, hasStorage, shim, winLis, conn,
                  auth, sw, qry, hs, pend, setupDone, budget >>

\* await config.storage?.removeItem(`${this.id}.connected`)
DisconnectRemoveItem ==
  /\ ~Dispatching
  /\ disc.pc = "removeItem"
  /\ \/ /\ DisconnectStep(DiscDone("ok"))
        /\ shim' = FALSE
     \/ /\ DisconnectStep(DiscDone("Error"))
        /\ shim' = shim
  /\ UNCHANGED << target, window, found, shownName, shimDisconnect,
                  asyncInject, hasStorage, lis, winLis, conn,
                  auth, sw, qry, hs, pend, setupDone, calls,
                  budget >>

\* ---------------------------------------------------- switchChain steps
\* Every step of switchChain() for caller c: s is the record after the step.
SwitchStep(c, s) ==
  /\ sw' = [sw EXCEPT ![c] = SwSettle(c, s)]
  /\ ret' = Returned("switchChain", s)

SwitchChainCall(chainId) ==
  /\ MayCall
  /\ sw["app"].pc = "idle"
  /\ calls' = calls + 1
  /\ SwitchStep("app", SwitchBegin(chainId))
  /\ UNCHANGED << target, window, found, shownName, shimDisconnect,
                  asyncInject, hasStorage, shim, lis, winLis,
                  conn, disc, auth, qry, hs, pend, quiet,
                  setupDone, overlap, budget >>

\* The wallet_switchEthereumChain request settles.
SwitchResponse(c) ==
  /\ ~Dispatching
  /\ sw[c].pc = "switching"
  /\ ~sw[c].reqDone
  /\ \/ SwitchStep(c, IF sw[c].confirmed
                      THEN SwReturn([sw[c] EXCEPT !.reqDone = TRUE])
                      ELSE [sw[c] EXCEPT !.reqDone = TRUE])
     \/ \E e \in Rejections({UserRejectedCode, ChainNotAddedCode})
                   \cup {WrappedChainNotAdded} :
          SwitchStep(c, SwitchCatch(sw[c], e))
  /\ UNCHANGED << target, window, found, shownName, shimDisconnect,
                  asyncInject, hasStorage, shim, lis, winLis,
                  conn, disc, auth, qry, hs, pend, quiet,
                  setupDone, calls, overlap, budget >>

\* The wallet_addEthereumChain request settles; getChainId() follows.
SwitchAddResponse(c) ==
  /\ ~Dispatching
  /\ sw[c].pc = "adding"
  /\ \/ SwitchStep(c,
          IF IsSome(Provider)
          THEN [sw[c] EXCEPT !.pc = "requery", !.added = TRUE,
                             !.reqs = @ \cup {"eth_chainId"}]
          ELSE SwThrow([sw[c] EXCEPT !.added = TRUE], "UserRejectedRequestError",
                       "ProviderNotFoundError", "eth_chainId"))
     \/ \E e \in Rejections({}) :
          SwitchStep(c, SwThrow(sw[c], "UserRejectedRequestError", e.name,
                                "wallet_addEthereumChain"))
  /\ UNCHANGED << target, window, found, shownName, shimDisconnect,
                  asyncInject, hasStorage, shim, lis, winLis,
                  conn, disc, auth, qry, hs, pend, quiet,
                  setupDone, calls, overlap, budget >>

\* The add-chain path without the chain test: any current chain is accepted.
SwitchUnverified(s, currentChainId) ==
  SwReturn([s EXCEPT !.requery = currentChainId])

\* The outcome of the chain test after the add-chain call.
SwitchVerify(s, currentChainId) ==
  IF currentChainId # s.chainId
  THEN SwThrow([s EXCEPT !.requery = currentChainId], "UserRejectedRequestError",
               "UserRejectedRequestError", "requery")
  ELSE SwReturn([s EXCEPT !.requery = currentChainId])

\* const currentChainId = await this.getChainId() after the add-chain call.
SwitchRequery(c) ==
  /\ ~Dispatching
  /\ sw[c].pc = "requery"
  /\ \/ \E cur \in ChainIds : SwitchStep(c, SwitchVerify(sw[c], cur))
     \/ \E e \in Rejections({}) :
          SwitchStep(c, SwThrow(sw[c], "UserRejectedRequestError", e.name,
                                "eth_chainId"))
  /\ UNCHANGED << target, window, found, shownName, shimDisconnect,
                  asyncInject, hasStorage, shim, lis, winLis,
                  conn, disc, auth, qry, hs, pend, quiet,
                  setupDone, calls, overlap, budget >>

\* --------------------------------------------------------- isAuthorized
AuthIdle ==
  [pc |-> "idle", res |-> "", failed |-> FALSE, after |-> FALSE,
   shimRead |-> "", nonEmpty |-> FALSE, raced |-> FALSE, installed |-> FALSE,
   timer |-> FALSE, reqs |-> {}]
AuthSettle(a) == IF a.pc = "done" THEN AuthIdle ELSE a

AuthReturn(a, value) ==
  [a EXCEPT !.pc = "done", !.res = IF value THEN "true" ELSE "false"]

\* isAuthorized() without its catch block: the failure reaches the caller.
AuthRethrow(a) == [a EXCEPT !.pc = "done", !.res = "Error", !.failed = TRUE]

\* The catch block of isAuthorized().
AuthCatch(a) == [a EXCEPT !.pc = "done", !.res = "false", !.failed = TRUE]

\* The test of unstable_shimAsyncInject, were the detector always enabled.
AsyncInjectAlways == TRUE

\* unstable_shimAsyncInject !== undefined && unstable_shimAsyncInject !== false
AsyncInjectEnabled == asyncInject # "undefined" /\ asyncInject # "false"

\* isAuthorized() from the shim test to its next await: the eth_accounts
\* request of getAccounts(), or the Promise.race of the injection event and
\* the timer.
AuthAfterShim(a) ==
  IF IsSome(Provider)
  THEN [a EXCEPT !.pc = "eth_accounts", !.reqs = @ \cup {"eth_accounts"}]
  ELSE IF AsyncInjectEnabled
  THEN [a EXCEPT !.pc = "race", !.raced = TRUE, !.installed = window.defined,
                 !.timer = TRUE]
  ELSE AuthCatch(a)

\* isAuthorized() up to its first await.
\* isAuthorized() reading a missing storage backend as "not disconnected".
AuthBeginUnshimmed ==
  LET a == [AuthIdle EXCEPT !.after = quiet]
  IN  IF shimDisconnect /\ hasStorage
      THEN [a EXCEPT !.pc = "getItem"]
      ELSE AuthAfterShim(a)

AuthBegin ==
  LET a == [AuthIdle EXCEPT !.after = quiet]
  IN  IF shimDisconnect /\ hasStorage
      THEN [a EXCEPT !.pc = "getItem"]
      ELSE IF shimDisconnect
      THEN AuthReturn([a EXCEPT !.shimRead = "absent"], FALSE)
      ELSE AuthAfterShim(a)

\* isAuthorized() without the shim test: the value read is not looked at.
AuthReadUntested(a, value) ==
  AuthAfterShim([a EXCEPT !.shimRead = IF value THEN "present" ELSE "absent"])

\* isAuthorized() from the value read from storage on.
AuthRead(a, value) ==
  IF value
  THEN AuthAfterShim([a EXCEPT !.shimRead = "present"])
  ELSE AuthReturn([a EXCEPT !.shimRead = "absent"], FALSE)

\* window.addEventListener('ethereum#initialized', ..., { once: true })
Installed(a) == IF a.pc = "race" /\ a.installed THEN 1 ELSE 0

\* Every step of isAuthorized(): a is the call's record after the step.
AuthStep(a) ==
  /\ auth' = AuthSettle(a)
  /\ ret' = Returned("isAuthorized", a)

IsAuthorizedCall ==
  /\ MayCall
  /\ auth.pc = "idle"
  /\ calls' = calls + 1
  /\ AuthStep(AuthBegin)
  /\ winLis' = winLis + Installed(AuthBegin)
  /\ UNCHANGED << target, window, found, shownName, shimDisconnect,
                  asyncInject, hasStorage, shim, lis, conn, disc,
                  sw, qry, hs, pend, quiet, setupDone, overlap,
                  budget >>

\* !(await config.storage?.getItem(`${this.id}.connected`))
AuthGetItem ==
  /\ ~Dispatching
  /\ auth.pc = "getItem"
  /\ \/ /\ AuthStep(AuthRead(auth, shim))
        /\ winLis' = winLis + Installed(AuthRead(auth, shim))
     \/ /\ AuthStep(AuthCatch(auth))
        /\ winLis' = winLis
  /\ UNCHANGED << target, window, found, shownName, shimDisconnect,
                  asyncInject, hasStorage, shim, lis, conn, disc,
                  sw, qry, hs, pend, quiet, setupDone, calls,
                  overlap, budget >>

\* The race once handleEthereum() has run: res is whether a provider is there.
AuthRaced(a, provider) ==
  IF IsSome(provider) THEN AuthReturn(a, TRUE) ELSE AuthCatch(a)

\* The timer of the race fires first.  handleEthereum() calls
\* window.removeEventListener with handleEthereum, which is not the listener
\* that was registered (an arrow function calling it): the listener stays.
AuthTimer ==
  /\ ~Dispatching
  /\ auth.pc = "race"
  /\ AuthStep(AuthRaced([auth EXCEPT !.timer = FALSE], Provider))
  /\ UNCHANGED << target, window, found, shownName, shimDisconnect,
                  asyncInject, hasStorage, shim, lis, winLis,
                  conn, disc, sw, qry, hs, pend, quiet,
                  setupDone, calls, overlap, budget >>

\* const accounts = await this.getAccounts(); return !!accounts.length
AuthEthAccounts ==
  /\ ~Dispatching
  /\ auth.pc = "eth_accounts"
  /\ \/ \E r \in AccountLists :
          AuthStep(AuthReturn([auth EXCEPT !.nonEmpty = Len(r) > 0], Len(r) > 0))
     \/ AuthStep(AuthCatch(auth))
  /\ UNCHANGED << target, window, found, shownName, shimDisconnect,
                  asyncInject, hasStorage, shim, lis, winLis,
                  conn, disc, sw, qry, hs, pend, quiet,
                  setupDone, calls, overlap, budget >>

\* ------------------------------------------- getAccounts / getChainId
QryIdle == [pc |-> "idle", method |-> "", res |-> ""]
QrySettle(q) == IF q.pc = "done" THEN QryIdle ELSE q

QueryBegin(method) ==
  IF IsSome(Provider)
  THEN [pc |-> "request", method |-> method, res |-> ""]
  ELSE [pc |-> "done", method |-> method, res |-> "ProviderNotFoundError"]

QueryStep(q) ==
  /\ qry' = QrySettle(q)
  /\ ret' = Returned("query", q)

\* getAccounts() and getChainId() up to the provider request.
QueryCall(method) ==
  /\ MayCall
  /\ qry.pc = "idle"
  /\ calls' = calls + 1
  /\ QueryStep(QueryBegin(method))
  /\ UNCHANGED << target, window, found, shownName, shimDisconnect,
                  asyncInject, hasStorage, shim, lis, winLis,
                  conn, disc, auth, sw, hs, pend, quiet,
                  setupDone, overlap, budget >>

QueryResponse ==
  /\ ~Dispatching
  /\ qry.pc = "request"
  /\ \/ QueryStep([qry EXCEPT !.pc = "done", !.res = "ok"])
     \/ QueryStep([qry EXCEPT !.pc = "done", !.res = "ProviderRpcError"])
  /\ UNCHANGED << target, window, found, shownName, shimDisconnect,
                  asyncInject, hasStorage, shim, lis, winLis,
                  conn, disc, auth, sw, hs, pend, quiet,
                  setupDone, calls, overlap, budget >>

\* ---------------------------------------------------------------- setup
\* setup() is called when the connector is constructed, before any other
\* call: MayCall and the steps of calls require setupDone.
Setup ==
  /\ ~setupDone
  /\ setupDone' = TRUE
  /\ lis' = IF IsSome(Provider) /\ target.kind # "undefined"
            THEN On(On(lis, "accountsChanged"), "connect")
            ELSE lis
  /\ ret' = <<>>
  /\ UNCHANGED << target, window, found, shownName, shimDisconnect,
                  asyncInject, hasStorage, shim, winLis, conn,
                  disc, auth, sw, qry, hs, pend, quiet, calls,
                  overlap, budget >>

\* ------------------------------------------------ provider event handlers
NoEmits == [connect |-> 0, disconnect |-> 0, change |-> 0]

\* One invocation of a handler: the handler the provider called (origin, with
\* its argument), the function now running, and what the invocation did.
Invocation(origin, arg) ==
  [origin |-> origin, arg |-> arg, fn |-> origin, pc |-> "run",
   emitted |-> NoEmits, reqs |-> {}, wrote |-> FALSE, threw |-> FALSE]

NoPend == [ev |-> "", accounts |-> <<>>, num |-> 0, n |-> 0]

Emits(h, event) == [h EXCEPT !.emitted[event] = @ + 1]
Requests(h, method) == [h EXCEPT !.pc = method, !.reqs = @ \cup {method}]
Finished(h) == [h EXCEPT !.pc = "done"]
Thrown(h) == [h EXCEPT !.pc = "done", !.threw = TRUE]
Remove(seq, i) == SubSeq(seq, 1, i - 1) \o SubSeq(seq, i + 1, Len(seq))
Delivered == IF pend.n = 1 THEN NoPend ELSE [pend EXCEPT !.n = @ - 1]

\* A handler invocation called by the provider, after its synchronous part:
\* it is suspended at an await (kept in hs) or over (reported in ret).
Invoked(h) ==
  /\ hs' = IF h.pc = "done" THEN hs ELSE Append(hs, h)
  /\ pend' = Delivered

\* A suspended handler invocation after a step.
Resumed(i, h) ==
  hs' = IF h.pc = "done" THEN Remove(hs, i) ELSE [hs EXCEPT ![i] = h]

\* Whether handling the event may leave a handler suspended at an await.
Suspends(ev, accounts, num) ==
  \/ ev = "connect"
  \/ ev = "accountsChanged" /\ Len(accounts) > 0
  \/ ev = "disconnect" /\ num = ReconnectingCode

\* The provider emits an event: every registered handler is called in turn.
ProviderEmit(ev, accounts, num) ==
  /\ MayCall
  /\ IsSome(Provider)
  /\ lis[ev] > 0
  /\ Suspends(ev, accounts, num) => Len(hs) + lis[ev] <= MaxHandlers
  /\ pend' = [ev |-> ev, accounts |-> accounts, num |-> num, n |-> lis[ev]]
  /\ calls' = calls + 1
  /\ ret' = <<>>
  /\ UNCHANGED << target, window, found, shownName, shimDisconnect,
                  asyncInject, hasStorage, shim, lis, winLis,
                  conn, disc, auth, sw, qry, hs, quiet,
                  setupDone, overlap, budget >>

\* onDisconnect from the 'disconnect' emission on: the listener calls.
DisconnectedRegistry(registry, provider) ==
  IF IsSome(provider) THEN AttachDisconnected(registry) ELSE registry

\* onDisconnect(error) up to its first await, or to its end.
OnDisconnectBegin(h, code) ==
  LET g == [h EXCEPT !.fn = "onDisconnect"]
  IN  IF code = ReconnectingCode /\ IsSome(Provider)
      THEN Requests(g, "eth_accounts")
      ELSE Finished(Emits(g, "disconnect"))

\* onConnect(connectInfo) up to the eth_accounts request of getAccounts().
OnConnectBegin(h) ==
  LET g == [h EXCEPT !.fn = "onConnect"]
  IN  IF IsSome(Provider) THEN Requests(g, "eth_accounts") ELSE Thrown(g)

\* onAccountsChanged(accounts) without the test for an empty list.
OnAccountsChangedUntested(h, accounts, listening) ==
  IF listening
  THEN IF IsSome(Provider) THEN Requests(h, "eth_chainId") ELSE Thrown(h)
  ELSE Finished(Emits(h, "change"))

\* onAccountsChanged(accounts) up to its first await, or to its end;
\* listening is config.emitter.listenerCount('connect') > 0.
OnAccountsChangedBegin(h, accounts, listening) ==
  IF Len(accounts) = 0 THEN OnDisconnectBegin(h, 0)
  ELSE IF listening
  THEN IF IsSome(Provider) THEN Requests(h, "eth_chainId") ELSE Thrown(h)
  ELSE Finished(Emits(h, "change"))

\* onAccountsChanged(accounts)
DeliverAccountsChanged ==
  /\ Dispatching
  /\ pend.ev = "accountsChanged"
  /\ \E listening \in BOOLEAN :
       LET h == OnAccountsChangedBegin(
                  Invocation("onAccountsChanged",
                             IF Len(pend.accounts) = 0 THEN "empty" ELSE "accounts"),
                  pend.accounts, listening)
       IN  /\ Invoked(h)
           /\ lis' = IF h.emitted.disconnect > 0
                     THEN DisconnectedRegistry(lis, Provider) ELSE lis
           /\ sw' = IF h.emitted.change > 0 THEN EmitChange(sw, 0) ELSE sw
           /\ ret' = Returned("handler", h) \o
                       (IF h.emitted.change > 0 THEN ChangeReturns(sw, 0) ELSE <<>>)
  /\ UNCHANGED << target, window, found, shownName, shimDisconnect,
                  asyncInject, hasStorage, shim, winLis, conn,
                  disc, auth, qry, quiet, setupDone, calls,
                  overlap, budget >>

\* onChainChanged(chain)
DeliverChainChanged ==
  /\ Dispatching
  /\ pend.ev = "chainChanged"
  /\ LET h == Finished(Emits(Invocation("onChainChanged", "chain"), "change"))
     IN  /\ Invoked(h)
         /\ sw' = EmitChange(sw, pend.num)
         /\ ret' = Returned("handler", h) \o ChangeReturns(sw, pend.num)
  /\ UNCHANGED << target, window, found, shownName, shimDisconnect,
                  asyncInject, hasStorage, shim, lis, winLis,
                  conn, disc, auth, qry, quiet, setupDone, calls,
                  overlap, budget >>

\* onConnect(connectInfo)
DeliverConnect ==
  /\ Dispatching
  /\ pend.ev = "connect"
  /\ LET h == OnConnectBegin(Invocation("onConnect", "chain"))
     IN  /\ Invoked(h)
         /\ ret' = Returned("handler", h)
  /\ quiet' = FALSE
  /\ overlap' = "none"
  /\ auth' = Disturbed(auth)
  /\ UNCHANGED << target, window, found, shownName, shimDisconnect,
                  asyncInject, hasStorage, shim, lis, winLis,
                  conn, disc, sw, qry, setupDone, calls, budget >>

\* onDisconnect(error)
DeliverDisconnect ==
  /\ Dispatching
  /\ pend.ev = "disconnect"
  /\ LET h == OnDisconnectBegin(
                Invocation("onDisconnect",
                           IF pend.num = ReconnectingCode THEN "1013" ELSE "error"),
                pend.num)
     IN  /\ Invoked(h)
         /\ lis' = IF h.emitted.disconnect > 0
                   THEN DisconnectedRegistry(lis, Provider) ELSE lis
         /\ ret' = Returned("handler", h)
  /\ UNCHANGED << target, window, found, shownName, shimDisconnect,
                  asyncInject, hasStorage, shim, winLis, conn,
                  disc, auth, sw, qry, quiet, setupDone, calls,
                  overlap, budget >>

\* onAccountsChanged: const chainId = (await this.getChainId()).toString(),
\* then this.onConnect({ chainId }) up to its eth_accounts request.
HandlerChainId(i) ==
  /\ ~Dispatching
  /\ hs[i].pc = "eth_chainId"
  /\ \/ /\ \E chain \in ChainIds :
             /\ Resumed(i, OnConnectBegin(hs[i]))
             /\ ret' = Returned("handler", OnConnectBegin(hs[i]))
        /\ quiet' = FALSE
        /\ overlap' = "none"
        /\ auth' = Disturbed(auth)
     \/ /\ Resumed(i, Thrown(hs[i]))
        /\ ret' = Returned("handler", Thrown(hs[i]))
        /\ UNCHANGED << quiet, auth, overlap >>
  /\ UNCHANGED << target, window, found, shownName, shimDisconnect,
                  asyncInject, hasStorage, shim, lis, winLis,
                  conn, disc, sw, qry, pend, setupDone, calls,
                  budget >>

\* onConnect from the accounts of getAccounts() to the setItem call.
OnConnectAccounts(h, accounts) ==
  IF Len(accounts) = 0 THEN Finished(h)
  ELSE IF shimDisconnect /\ hasStorage
  THEN [Emits(h, "connect") EXCEPT !.pc = "setItem"]
  ELSE Finished(Emits(h, "connect"))

\* onConnect: const accounts = await this.getAccounts()
HandlerConnectAccounts(i) ==
  /\ ~Dispatching
  /\ hs[i].pc = "eth_accounts"
  /\ hs[i].fn = "onConnect"
  /\ \/ \E r \in AccountLists :
          LET h == OnConnectAccounts(hs[i], r)
          IN  /\ Resumed(i, h)
              /\ ret' = Returned("handler", h)
              /\ lis' = IF h.emitted.connect > 0 /\ IsSome(Provider)
                        THEN AttachConnected(lis) ELSE lis
     \/ /\ Resumed(i, Thrown(hs[i]))
        /\ ret' = Returned("handler", Thrown(hs[i]))
        /\ lis' = lis
  /\ quiet' = FALSE
  /\ overlap' = "none"
  /\ auth' = Disturbed(auth)
  /\ UNCHANGED << target, window, found, shownName, shimDisconnect,
                  asyncInject, hasStorage, shim, winLis, conn,
                  disc, sw, qry, pend, setupDone, calls, budget >>

\* onConnect: await config.storage?.setItem(`${this.id}.connected`, true)
HandlerSetItem(i) ==
  /\ ~Dispatching
  /\ hs[i].pc = "setItem"
  /\ hs' = Remove(hs, i)
  /\ \/ /\ shim' = TRUE
        /\ ret' = Returned("handler", Finished([hs[i] EXCEPT !.wrote = TRUE]))
     \/ /\ shim' = shim
        /\ ret' = Returned("handler", Thrown(hs[i]))
  /\ quiet' = FALSE
  /\ overlap' = "none"
  /\ auth' = Disturbed(auth)
  /\ UNCHANGED << target, window, found, shownName, shimDisconnect,
                  asyncInject, hasStorage, lis, winLis, conn,
                  disc, sw, qry, pend, setupDone, calls, budget >>

\* onDisconnect with code 1013, from the accounts of getAccounts() on.
OnDisconnectAccounts(h, accounts) ==
  IF Len(accounts) > 0 THEN Finished(h) ELSE Finished(Emits(h, "disconnect"))

\* onDisconnect: if (provider && !!(await this.getAccounts()).length) return
HandlerDisconnectAccounts(i) ==
  /\ ~Dispatching
  /\ hs[i].pc = "eth_accounts"
  /\ hs[i].fn = "onDisconnect"
  /\ hs' = Remove(hs, i)
  /\ \/ \E r \in AccountLists :
          LET h == OnDisconnectAccounts(hs[i], r)
          IN  /\ ret' = Returned("handler", h)
              /\ lis' = IF h.emitted.disconnect > 0
                        THEN AttachDisconnected(lis) ELSE lis
     \/ /\ ret' = Returned("handler", Thrown(hs[i]))
        /\ lis' = lis
  /\ UNCHANGED << target, window, found, shownName, shimDisconnect,
                  asyncInject, hasStorage, shim, winLis, conn,
                  disc, auth, sw, qry, pend, quiet, setupDone,
                  calls, overlap, budget >>

\* ------------------------------------------------------ the environment
MetaMaskProvider == [flags |-> {isMetaMask}, props |-> Internals]
RainbowProvider == [flags |-> {isRainbow}, props |-> {}]

NoWindow ==
  [defined |-> FALSE, ethereum |-> None, providers |-> None,
   coinbaseWalletExtension |-> None, phantom |-> None]
EmptyWindow == [NoWindow EXCEPT !.defined = TRUE]

\* A wallet injects window.ethereum after page load and dispatches
\* 'ethereum#initialized': every { once: true } listener runs and is removed.
Inject(p) ==
  /\ setupDone
  /\ ~Dispatching
  /\ window.defined
  /\ ~IsSome(window.ethereum)
  /\ window' = [window EXCEPT !.ethereum = Some(p)]
  /\ winLis' = 0
  /\ IF auth.pc = "race" /\ auth.installed
     THEN AuthStep(AuthRaced([auth EXCEPT !.installed = FALSE],
                             getProvider(target, window')))
     ELSE auth' = auth /\ ret' = <<>>
  /\ UNCHANGED << target, found, shownName, shimDisconnect,
                  asyncInject, hasStorage, shim, lis, conn, disc,
                  sw, qry, hs, pend, quiet, setupDone, calls,
                  overlap, budget >>

\* ----------------------------------------------------- the specification
\* The connector after construction. unstable_shimAsyncInject is read only
\* while no provider is found, and providers are never taken out of window;
\* without shimDisconnect the storage is there and must stay untouched.
Init ==
  /\ target \in {NoTarget, StringTarget(id_metaMask)}
  /\ window \in {NoWindow, EmptyWindow,
                 [EmptyWindow EXCEPT !.ethereum = Some(MetaMaskProvider)]}
  /\ found = None
  /\ shownName = <<>>
  /\ shimDisconnect \in BOOLEAN
  /\ asyncInject \in (IF IsSome(findProvider(window, TrueCondition))
                      THEN {"undefined"}
                      ELSE {"undefined", "false", "true"})
  /\ hasStorage \in (IF shimDisconnect THEN BOOLEAN ELSE {TRUE})
  /\ shim \in (IF hasStorage THEN BOOLEAN ELSE {FALSE})
  /\ lis = [ev \in ProviderEvents |-> 0]
  /\ winLis = 0
  /\ conn = ConnIdle
  /\ disc = DiscIdle
  /\ auth = AuthIdle
  /\ sw = [c \in Callers |-> SwIdle]
  /\ qry = QryIdle
  /\ hs = <<>>
  /\ pend = NoPend
  /\ ret = <<>>
  /\ quiet = FALSE
  /\ setupDone = FALSE
  /\ calls = 0
  /\ overlap = "none"
  /\ budget = MaxCalls

Next ==
  \/ Setup
  \/ \E chainId \in {0} \cup ChainIds : ConnectCall(chainId)
  \/ ConnectGetItem
  \/ ConnectEthAccounts
  \/ ConnectPermissions
  \/ ConnectRequestAccounts
  \/ ConnectChainId
  \/ ConnectSwitched
  \/ ConnectSetItem
  \/ DisconnectCall
  \/ DisconnectRemoveItem
  \/ IsAuthorizedCall
  \/ AuthGetItem
  \/ AuthTimer
  \/ AuthEthAccounts
  \/ \E chainId \in ChainIds : SwitchChainCall(chainId)
  \/ \E c \in Callers : SwitchResponse(c)
  \/ \E c \in Callers : SwitchAddResponse(c)
  \/ \E c \in Callers : SwitchRequery(c)
  \/ \E method \in {"eth_accounts", "eth_chainId"} : QueryCall(method)
  \/ QueryResponse
  \/ \E accounts \in AccountLists : ProviderEmit("accountsChanged", accounts, 0)
  \/ \E chain \in ChainIds : ProviderEmit("chainChanged", <<>>, chain)
  \/ \E chain \in ChainIds : ProviderEmit("connect", <<>>, chain)
  \/ \E code \in {0, ReconnectingCode} : ProviderEmit("disconnect", <<>>, code)
  \/ DeliverAccountsChanged
  \/ DeliverChainChanged
  \/ DeliverConnect
  \/ DeliverDisconnect
  \/ \E i \in 1..Len(hs) : HandlerChainId(i)
  \/ \E i \in 1..Len(hs) : HandlerConnectAccounts(i)
  \/ \E i \in 1..Len(hs) : HandlerSetItem(i)
  \/ \E i \in 1..Len(hs) : HandlerDisconnectAccounts(i)
  \/ \E p \in {MetaMaskProvider, RainbowProvider} : Inject(p)

Spec == Init /\ [][Next]_vars

\* ------------------------------------------- switchChain under fairness
\* A connector without the disconnect shim whose provider is injected from
\* the start; the application calls connect() and switchChain(), and the
\* provider emits accountsChanged and chainChanged.
MaxCallsLive == 3

InitLive ==
  /\ target \in {NoTarget, StringTarget(id_metaMask)}
  /\ window = [EmptyWindow EXCEPT !.ethereum = Some(MetaMaskProvider)]
  /\ found = None
  /\ shownName = <<>>
  /\ shimDisconnect = FALSE
  /\ asyncInject = "undefined"
  /\ hasStorage = TRUE
  /\ shim = FALSE
  /\ lis = [ev \in ProviderEvents |-> 0]
  /\ winLis = 0
  /\ conn = ConnIdle
  /\ disc = DiscIdle
  /\ auth = AuthIdle
  /\ sw = [c \in Callers |-> SwIdle]
  /\ qry = QryIdle
  /\ hs = <<>>
  /\ pend = NoPend
  /\ ret = <<>>
  /\ quiet = FALSE
  /\ setupDone = FALSE
  /\ calls = 0
  /\ overlap = "none"
  /\ budget = MaxCallsLive

NextLive ==
  \/ Setup
  \/ \E chainId \in {0} \cup ChainIds : ConnectCall(chainId)
  \/ ConnectRequestAccounts
  \/ ConnectChainId
  \/ ConnectSwitched
  \/ \E chainId \in ChainIds : SwitchChainCall(chainId)
  \/ \E c \in Callers : SwitchResponse(c)
  \/ \E c \in Callers : SwitchAddResponse(c)
  \/ \E c \in Callers : SwitchRequery(c)
  \/ \E accounts \in AccountLists : ProviderEmit("accountsChanged", accounts, 0)
  \/ \E chain \in ChainIds : ProviderEmit("chainChanged", <<>>, chain)
  \/ DeliverAccountsChanged
  \/ DeliverChainChanged
  \/ \E i \in 1..Len(hs) : HandlerChainId(i)
  \/ \E i \in 1..Len(hs) : HandlerConnectAccounts(i)

\* Every settled promise and every emitted event is handled: the event loop
\* runs the tasks that are ready.
SpecLive == InitLive /\ [][NextLive]_vars /\ WF_vars(NextLive)

\* ------------------------------------------- the locator on its own
\* The sets of flags a provider of the environment declares.
FlagSets ==
  { {}, {isMetaMask}, {isMetaMask, isOkxWallet}, {isMetaMask, isBraveWallet},
    {isBraveWallet}, {isRainbow}, {isMetaMask, isRainbow}, {isCoinbaseWallet},
    {isPhantom} }

\* The providers of the environment: MetaMask exposes _events and _state, a
\* provider that declares isMetaMask and isBraveWallet any of them.
Providers ==
  { p \in [flags : FlagSets, props : SUBSET Internals] :
      IF {isMetaMask, isBraveWallet} \subseteq p.flags THEN TRUE
      ELSE IF isMetaMask \in p.flags THEN p.props = Internals
      ELSE p.props = {} }

\* window.ethereum.providers: arrays of up to MaxProviders providers.
ProviderLists == UNION { [1..n -> Providers] : n \in 0..MaxProviders }

\* The windows: none, or one with window.ethereum unset, a single provider,
\* or a provider carrying a providers array.
Windows ==
  {NoWindow}
    \cup { [EmptyWindow EXCEPT !.coinbaseWalletExtension = c, !.phantom = ph,
                              !.ethereum = e[1], !.providers = e[2]] :
             c \in {None, Some([flags |-> {isCoinbaseWallet}, props |-> {}])},
             ph \in {None, Some([flags |-> {isPhantom}, props |-> {}])},
             e \in {<<None, None>>}
                     \cup { <<Some(p), None>> : p \in Providers }
                     \cup { <<Some([flags |-> {}, props |-> {}]), Some(l)>> :
                              l \in ProviderLists } }

\* A descriptor returned by a target function.
CustomTarget ==
  [id |-> id_custom, name |-> name_Custom, provider |-> FlagProvider(isRainbow),
   features |-> {}]

Targets ==
  {NoTarget, FunctionTarget(None), FunctionTarget(Some(CustomTarget))}
    \cup { StringTarget(id) :
             id \in {id_coinbaseWallet, id_metaMask, id_phantom, id_rainbow} }

InitLocate ==
  /\ target \in Targets
  /\ window \in Windows
  /\ found = None
  /\ shownName = <<>>
  /\ shimDisconnect = TRUE
  /\ asyncInject = "undefined"
  /\ hasStorage = FALSE
  /\ shim = FALSE
  /\ lis = [ev \in ProviderEvents |-> 0]
  /\ winLis = 0
  /\ conn = ConnIdle
  /\ disc = DiscIdle
  /\ auth = AuthIdle
  /\ sw = [c \in Callers |-> SwIdle]
  /\ qry = QryIdle
  /\ hs = <<>>
  /\ pend = NoPend
  /\ ret = <<>>
  /\ quiet = FALSE
  /\ setupDone = FALSE
  /\ calls = 0
  /\ overlap = "none"
  /\ budget = 0

\* connector.name is read and getProvider() is called.
Locate ==
  /\ shownName = <<>>
  /\ shownName' = ConnectorName(target)
  /\ found' = getProvider(target, window)
  /\ UNCHANGED << target, window, shimDisconnect, asyncInject,
                  hasStorage, shim, lis, winLis, conn, disc,
                  auth, sw, qry, hs, pend, ret, quiet, setupDone,
                  calls, overlap, budget >>

NextLocate == Locate

SpecLocate == InitLocate /\ [][NextLocate]_vars

\* getProvider() has been called and the display name read.
Located == shownName # <<>>

\* ================================================= provider discovery
\* The environment's provider set: the providers array of window.ethereum
\* if there is one, else window.ethereum alone.
ProviderSet(win) ==
  IF IsSome(win.ethereum) /\ IsSome(win.providers) THEN Get(win.providers)
  ELSE IF IsSome(win.ethereum) THEN << Get(win.ethereum) >>
  ELSE <<>>

\* The first provider of a list that declares the flag, if any.
FirstDeclaring(list, flag) ==
  IF \E i \in 1..Len(list) : flag \in list[i].flags
  THEN Some(list[CHOOSE i \in 1..Len(list) :
                   /\ flag \in list[i].flags
                   /\ \A j \in 1..(i - 1) : flag \notin list[j].flags])
  ELSE None

IsOtherString(tgt) == tgt.kind = "string" /\ tgt.id \notin TargetMapKeys

\* C8: for a string target without a well-known descriptor the required flag
\* is is<CapitalizedIdentifier> (isRainbow for 'rainbow'), and getProvider()
\* resolves to the first provider of the provider set that declares that
\* flag, to undefined when none declares it.
C8_FlagTargetSelectsByFlag ==
  (Located /\ IsOtherString(target)) =>
     /\ getWindowProvider(target).provider = FlagProvider(FlagOf(target.id))
     /\ target.id = id_rainbow => FlagOf(target.id) = isRainbow
     /\ found = FirstDeclaring(ProviderSet(window), FlagOf(target.id))

\* C8, the failing case: target 'rainbow', providers [MetaMask, Rainbow], and
\* getProvider() resolved to the MetaMask provider.
C8_FirstProviderTaken ==
  /\ Located
  /\ target = StringTarget(id_rainbow)
  /\ window.providers = Some(<< MetaMaskProvider, RainbowProvider >>)
  /\ found = Some(MetaMaskProvider)

\* The first character upper-cased, the rest as in the identifier.
IsCapitalized(name, id) ==
  /\ Len(name) = Len(id)
  /\ \A i \in 2..Len(id) : name[i] = id[i]
  /\ \/ \E i \in 1..Len(Lower) : Lower[i] = id[1] /\ Upper[i] = name[1]
     \/ (\A i \in 1..Len(Lower) : Lower[i] # id[1]) /\ name[1] = id[1]

\* C9: the display name is a function of the target only: 'Injected' without
\* a target, the descriptor's fixed name for a well-known identifier, and
\* the identifier with its first character upper-cased for any other string.
C9_NameFromTarget ==
  Located =>
     /\ target.kind = "undefined" => shownName = name_Injected
     /\ target = StringTarget(id_coinbaseWallet) => shownName = name_CoinbaseWallet
     /\ target = StringTarget(id_metaMask) => shownName = name_MetaMask
     /\ target = StringTarget(id_phantom) => shownName = name_Phantom
     /\ target = StringTarget(id_rainbow) => shownName = <<"R","a","i","n","b","o","w">>
     /\ IsOtherString(target) => IsCapitalized(shownName, target.id)

\* C9, its case: the name of target 'rainbow' was read in a window that has
\* providers.
C9_RainbowNamed ==
  /\ Located
  /\ target = StringTarget(id_rainbow)
  /\ IsSome(window.ethereum)
  /\ shownName = <<"R","a","i","n","b","o","w">>

\* The MetaMask-only provider and its OKX look-alike.
OnlyMetaMask(p) == p.flags = {isMetaMask}
OkxLookAlike(p) == p.flags = {isMetaMask, isOkxWallet}

\* What C10 says of single providers: MetaMask alone is selected, the same
\* provider with isOkxWallet is rejected.
MetaMaskExamples ==
  (IsSome(window.ethereum) /\ ~IsSome(window.providers)) =>
     /\ OnlyMetaMask(Get(window.ethereum)) => found = window.ethereum
     /\ OkxLookAlike(Get(window.ethereum)) => found = None

\* C10 as stated: with target 'metaMask' a selected provider declares
\* isMetaMask, no block-listed flag and, if it declares isBraveWallet,
\* exposes both _events and _state; MetaMask alone is selected and its OKX
\* look-alike rejected.
C10_BraveNeedsBothFields ==
  (Located /\ target = StringTarget(id_metaMask)) =>
     /\ IsSome(found) =>
          /\ isMetaMask \in Get(found).flags
          /\ Get(found).flags \cap MetaMaskImpersonationFlags = {}
          /\ isBraveWallet \in Get(found).flags =>
               {"_events", "_state"} \subseteq Get(found).props
     /\ MetaMaskExamples

\* C10 amended: a selected provider that declares isBraveWallet exposes at
\* least one of _events and _state.
C10_BraveNeedsOneField ==
  (Located /\ target = StringTarget(id_metaMask)) =>
     /\ IsSome(found) =>
          /\ isMetaMask \in Get(found).flags
          /\ Get(found).flags \cap MetaMaskImpersonationFlags = {}
          /\ isBraveWallet \in Get(found).flags =>
               {"_events", "_state"} \cap Get(found).props # {}
     /\ MetaMaskExamples

\* C10, its case: a provider declaring isMetaMask and isBraveWallet that
\* exposes _events alone was selected.
C10_BraveWithEventsSelected ==
  /\ Located
  /\ target = StringTarget(id_metaMask)
  /\ IsSome(found)
  /\ isBraveWallet \in Get(found).flags
  /\ Get(found).props = {"_events"}

\* ============================================ the connection lifecycle
\* The calls and handler invocations of an operation that ended in the last
\* step, with what each of them did.
Ended(op) == { ret[i].r : i \in { j \in 1..Len(ret) : ret[j].op = op } }

\* C1: with shimDisconnect and a storage backend, an isAuthorized() call that
\* starts after disconnect() has returned, with no step of connect() or of
\* onConnect since, returns false, whatever eth_accounts would answer.
C1_FalseAfterDisconnect ==
  (shimDisconnect /\ hasStorage) =>
     \A a \in Ended("isAuthorized") : a.after => a.res = "false"

\* C1, its case: such a call has returned false while a provider is there.
C1_AskedAfterDisconnect ==
  /\ shimDisconnect /\ hasStorage
  /\ IsSome(Provider)
  /\ \E a \in Ended("isAuthorized") :
       a.after /\ a.shimRead = "absent" /\ a.res = "false"

\* A connect() call that ended on a 4001 rejection of one of its two
\* account prompts.
PromptRejected(c) ==
  /\ c.failedAt \in {"wallet_requestPermissions", "eth_requestAccounts"}
  /\ c.code = UserRejectedCode

\* C2: when the provider rejects wallet_requestPermissions or
\* eth_requestAccounts with code 4001, connect() fails with
\* UserRejectedRequestError and has performed no setItem on the shim key.
C2_RejectionLeavesShim ==
  \A c \in Ended("connect") :
     PromptRejected(c) => c.res = "UserRejectedRequestError" /\ ~c.wrote

\* C2, its case: wallet_requestPermissions was rejected with 4001 while the
\* shim was absent.
C2_PermissionsRejected ==
  /\ ~shim
  /\ \E c \in Ended("connect") :
       /\ c.failedAt = "wallet_requestPermissions"
       /\ c.code = UserRejectedCode
       /\ c.res = "UserRejectedRequestError"

\* C3: while no provider can be resolved, connect() fails with
\* ProviderNotFoundError without a provider request, a listener or a shim
\* write, and isAuthorized() with unstable_shimAsyncInject undefined or false
\* returns false without an 'ethereum#initialized' listener or a timer.
C3_NoProviderNoEffect ==
  ~IsSome(Provider) =>
     /\ \A c \in Ended("connect") :
          /\ c.res = "ProviderNotFoundError"
          /\ ~c.requested /\ ~c.attached /\ ~c.wrote
     /\ asyncInject \in {"undefined", "false"} =>
          /\ winLis = 0
          /\ \A a \in Ended("isAuthorized") :
               /\ a.res = "false"
               /\ ~a.raced /\ ~a.installed /\ ~a.timer
               /\ a.reqs = {}

\* C3, its case: with unstable_shimAsyncInject false and the shim present,
\* isAuthorized() found no provider in a window and returned false.
C3_NotFoundNotWaited ==
  /\ window.defined /\ ~IsSome(Provider)
  /\ asyncInject = "false"
  /\ \E a \in Ended("isAuthorized") : a.shimRead = "present" /\ a.res = "false"

\* C4: isAuthorized() never ends with an error: a call that ended gave a
\* boolean, and false after any internal failure.
C4_AlwaysBoolean ==
  \A a \in Ended("isAuthorized") :
     /\ a.res \in {"true", "false"}
     /\ a.failed => a.res = "false"

\* C4, its case: the eth_accounts request of a call failed and the call
\* returned false.
C4_FailedRequestGaveFalse ==
  \E a \in Ended("isAuthorized") :
     a.failed /\ "eth_accounts" \in a.reqs /\ a.res = "false"

\* C5: isAuthorized() returns true only if an eth_accounts query of that
\* call returned a non-empty list and, with shimDisconnect, the shim was
\* present; also when the provider appears during the async-injection race.
C5_TrueOnlyWithAccounts ==
  \A a \in Ended("isAuthorized") :
     a.res = "true" =>
        /\ "eth_accounts" \in a.reqs
        /\ a.nonEmpty
        /\ shimDisconnect => a.shimRead = "present"

\* C5, the failing case: the call went through the race and returned true
\* without an eth_accounts request.
C5_TrueWithoutQuery ==
  \E a \in Ended("isAuthorized") :
     a.raced /\ a.res = "true" /\ a.reqs = {} /\ ~a.nonEmpty

\* An invocation of onAccountsChanged with an empty list.
EmptyAccounts(h) == h.origin = "onAccountsChanged" /\ h.arg = "empty"

\* C6: one invocation of onAccountsChanged with an empty list emits
\* 'disconnect' exactly once, emits neither 'connect' nor 'change', and
\* issues no eth_accounts or eth_chainId request.
C6_EmptyAccountsDisconnectOnce ==
  /\ \A h \in Ended("handler") :
       EmptyAccounts(h) =>
          /\ h.emitted = [connect |-> 0, disconnect |-> 1, change |-> 0]
          /\ h.reqs = {}
  /\ \A i \in 1..Len(hs) : ~EmptyAccounts(hs[i])

\* C6, its case: such an invocation has run, on the onDisconnect path.
C6_EmptyAccountsHandled ==
  \E h \in Ended("handler") :
     EmptyAccounts(h) /\ h.fn = "onDisconnect" /\ h.emitted.disconnect = 1

\* A switchChain() call that ended after wallet_switchEthereumChain failed
\* with 4902, wallet_addEthereumChain succeeded and eth_chainId was answered.
AddedAndRequeried(s) == s.via \in {"code", "nested"} /\ s.added /\ s.requery # 0

\* C7: in that case switchChain() returns the requested chain if the chain
\* answered equals the requested id, and fails with UserRejectedRequestError
\* if it differs.
C7_AddedChainVerified ==
  \A s \in Ended("switchChain") :
     AddedAndRequeried(s) =>
        /\ s.chainId \in ConfiguredChains
        /\ s.requery = s.chainId => s.res = "ok"
        /\ s.requery # s.chainId => s.res = "UserRejectedRequestError"

\* C7, its case: the 4902 came wrapped in data.originalError, the chain was
\* added, the chain answered differs and the call failed.
C7_AddedButNotSwitched ==
  \E s \in Ended("switchChain") :
     /\ s.via = "nested" /\ s.added
     /\ s.requery # 0 /\ s.requery # s.chainId
     /\ s.res = "UserRejectedRequestError"

\* ======================================================= the shim key
\* The calls and invocations of an operation among the completions r.
EndedIn(r, op) == { r[i].r : i \in { j \in 1..Len(r) : r[j].op = op } }

\* The step is the setItem of a connect() call that returns.
SetByConnect ==
  /\ conn.pc = "setItem"
  /\ \E c \in EndedIn(ret', "connect") : c.res = "ok" /\ c.wrote

\* The step is the setItem of an onConnect run that emitted 'connect', which
\* it does for a non-empty account list only.
SetByOnConnect ==
  /\ \E i \in 1..Len(hs) :
       hs[i].pc = "setItem" /\ hs[i].fn = "onConnect" /\ hs[i].emitted.connect = 1
  /\ \E h \in EndedIn(ret', "handler") : h.fn = "onConnect" /\ h.wrote

\* The step is the removeItem of a disconnect() call that returns.
RemovedByDisconnect ==
  /\ disc.pc = "removeItem"
  /\ \E d \in EndedIn(ret', "disconnect") : d.res = "ok"

\* C11: with shimDisconnect, the shim key is set only by a connect() that
\* succeeds or by an onConnect run with a non-empty account list, and removed
\* only by disconnect(); no step of onDisconnect, onAccountsChanged([]),
\* onChainChanged, switchChain, getAccounts, getChainId or isAuthorized
\* changes it.
C11_ShimWriters ==
  [][(shimDisconnect /\ shim' # shim) =>
        IF shim' THEN SetByConnect \/ SetByOnConnect ELSE RemovedByDisconnect]_vars

\* C11, its case: an onConnect run called by the provider has set the key.
C11_SetByProviderConnect ==
  /\ shimDisconnect /\ shim
  /\ \E h \in Ended("handler") : h.origin = "onConnect" /\ h.wrote

\* ============================================== the order inside connect
\* C12: in connect(), the account list is resolved before a
\* wallet_switchEthereumChain or wallet_addEthereumChain request is issued,
\* and setItem is called only after the switch attempt is over.
C12_AccountsSwitchShim ==
  /\ ConnectSwitch.pc # "idle" =>
       /\ conn.pc = "switchChain"
       /\ Len(conn.accounts) > 0
  /\ conn.pc \in {"getItem", "eth_accounts", "wallet_requestPermissions",
                  "eth_requestAccounts", "eth_chainId"} =>
       ConnectSwitch.reqs = {}
  /\ conn.pc = "setItem" =>
       /\ ConnectSwitch.pc = "idle"
       /\ conn.switched # "" \/ conn.chainId = 0 \/ conn.cur = conn.chainId
  /\ \A c \in Ended("connect") : c.wrote => ConnectSwitch.pc = "idle"

\* C12, its case: connect() waits for its switchChain() call, which has
\* issued wallet_addEthereumChain.
C12_AddingInsideConnect ==
  /\ conn.pc = "switchChain"
  /\ ConnectSwitch.pc = "adding"
  /\ "wallet_addEthereumChain" \in ConnectSwitch.reqs

\* C13: when connect(chainId) finds another chain current and the switch
\* fails, for whatever reason, the call does not fail for it: it goes on to
\* setItem, and returns the resolved accounts with the chain that was read
\* before the attempt, the shim persisted.
C13_FailedSwitchKeepsChain ==
  \A c \in Ended("connect") :
     /\ c.failedAt # "switchChain"
     /\ c.switched = "failed" =>
          \/ /\ c.res = "ok"
             /\ Len(c.accounts) > 0
             /\ c.cur \in ChainIds /\ c.cur # c.chainId
             /\ (shimDisconnect /\ hasStorage) => c.wrote /\ shim
          \/ c.failedAt = "setItem" /\ c.res = "Error"

\* C13, its case: the switch failed, connect() returned the other chain and
\* has written the shim.
C13_ReturnedAfterFailedSwitch ==
  \E c \in Ended("connect") :
     /\ c.switched = "failed" /\ c.res = "ok" /\ c.wrote
     /\ c.chainId # 0 /\ c.cur # c.chainId

\* ============================================ the listener registry
\* No call or handler that touches the registry is under way.
Settled ==
  /\ conn.pc = "idle" /\ disc.pc = "idle"
  /\ hs = <<>> /\ ~Dispatching

\* The registry of a connected connector, and of a disconnected one.
ListenersConnected ==
  /\ lis["accountsChanged"] > 0 /\ lis["chainChanged"] > 0
  /\ lis["disconnect"] > 0
  /\ lis["connect"] = 0
ListenersDisconnected ==
  /\ lis["connect"] > 0
  /\ lis["accountsChanged"] = 0 /\ lis["chainChanged"] = 0
  /\ lis["disconnect"] = 0

\* An onConnect run that went through its listener calls, and an
\* onDisconnect run that did.
ConnectedBy(h) == h.fn = "onConnect" /\ h.emitted.connect = 1 /\ ~h.threw
DisconnectedBy(h) == h.fn = "onDisconnect" /\ h.emitted.disconnect = 1

\* C14: after connect() or onConnect completes successfully the
\* accountsChanged, chainChanged and disconnect handlers are attached and the
\* connect handler is detached; after disconnect() or onDisconnect completes
\* the connect handler is attached and the other three are detached.
C14_ListenersMatchState ==
  (Settled /\ IsSome(Provider)) =>
     /\ \A c \in Ended("connect") : c.res = "ok" => ListenersConnected
     /\ \A h \in Ended("handler") : ConnectedBy(h) => ListenersConnected
     /\ \A d \in Ended("disconnect") : d.res = "ok" => ListenersDisconnected
     /\ \A h \in Ended("handler") : DisconnectedBy(h) => ListenersDisconnected

\* C14, the failing case: target 'metaMask', setup() then one connect() that
\* succeeded, and the connect handler is still registered.
C14_ConnectHandlerKept ==
  /\ target = StringTarget(id_metaMask)
  /\ calls = 1
  /\ \E c \in Ended("connect") : c.res = "ok"
  /\ lis["connect"] > 0

\* ========================================== the async-injection race
\* C15: the 'ethereum#initialized' listener an isAuthorized() call installs
\* is unregistered once the call completes, whether the injection event or
\* the timer fires first: the only listener registered at any time is that
\* of a call still in its race.
C15_NoListenerLeft == winLis = Installed(auth)

\* C15, the failing case: the timer fired first, the call has returned false
\* and its listener is still registered on window.
C15_ListenerLeftByTimer ==
  /\ auth.pc = "idle"
  /\ winLis > 0
  /\ \E a \in Ended("isAuthorized") : a.raced /\ a.installed /\ a.res = "false"

\* ======================================================= switchChain
\* A switchChain() call that returned the chain on the direct path.
DirectReturn(s) == s.res = "ok" /\ s.via = ""

\* The step delivers a chainChanged event for the chain.
ChangesTo(chainId) ==
  Dispatching /\ pend.ev = "chainChanged" /\ pend.num = chainId

\* The step resolves the request of a call whose 'change' event was seen.
ResolvesConfirmed(chainId) ==
  /\ ~Dispatching
  /\ \E c \in Callers :
       /\ sw[c].pc = "switching" /\ sw[c].chainId = chainId
       /\ sw[c].confirmed /\ ~sw[c].reqDone

\* C16: on the direct path switchChain() returns only once the
\* wallet_switchEthereumChain request has resolved and a 'change' event with
\* the requested chain id has been seen; a resolved request alone, or a
\* 'change' event with another chain id, does not make it return.
C16_RequestAndMatchingChange ==
  [][/\ \A s \in EndedIn(ret', "switchChain") :
          DirectReturn(s) =>
             /\ s.reqDone /\ s.confirmed
             /\ ChangesTo(s.chainId) \/ ResolvesConfirmed(s.chainId)
     /\ \A c \in Callers :
          (sw[c].pc = "switching" /\ ~sw[c].confirmed /\ sw'[c].confirmed) =>
             ChangesTo(sw[c].chainId)]_vars

\* C16, its case: a call has returned on the direct path.
C16_DirectPathReturned ==
  \E s \in Ended("switchChain") : DirectReturn(s) /\ s.reqDone /\ s.confirmed

\* The steps of the add-chain path at which a call can fail.
AddChainSteps == {"wallet_addEthereumChain", "eth_chainId", "requery"}

\* C17: with a provider, switchChain() for a chain that is not configured
\* fails with SwitchChainError wrapping ChainNotConfiguredError before any
\* request; a failure of the switch request with code 4001 gives
\* UserRejectedRequestError; a 4902 followed by any failure of the add-chain
\* step gives UserRejectedRequestError; any other failure of the switch
\* request gives SwitchChainError.
C17_SwitchErrorClasses ==
  IsSome(Provider) =>
     \A s \in Ended("switchChain") :
        /\ s.chainId \notin ConfiguredChains =>
             /\ s.res = "SwitchChainError"
             /\ s.cause = "ChainNotConfiguredError"
             /\ s.reqs = {}
        /\ s.failedAt = "wallet_switchEthereumChain" =>
             s.res = IF s.code = UserRejectedCode
                     THEN "UserRejectedRequestError" ELSE "SwitchChainError"
        /\ (s.via # "" /\ s.res # "ok") =>
             /\ s.failedAt \in AddChainSteps
             /\ s.res = "UserRejectedRequestError"

\* C17, its case: the switch request was rejected with 4001.
C17_SwitchRejected ==
  \E s \in Ended("switchChain") :
     /\ s.failedAt = "wallet_switchEthereumChain"
     /\ s.code = UserRejectedCode
     /\ s.res = "UserRejectedRequestError"

\* The steps of connect() that use the storage backend.
StorageSteps == {"getItem", "setItem"}

\* C18: with shimDisconnect and no storage backend the shim is never set,
\* connect() and disconnect() end without a storage error, and every
\* isAuthorized() call returns false without asking the provider.
C18_NoStorageShimAbsent ==
  (shimDisconnect /\ ~hasStorage) =>
     /\ ~shim
     /\ \A c \in Ended("connect") : c.failedAt \notin StorageSteps /\ ~c.wrote
     /\ \A d \in Ended("disconnect") : d.res # "Error"
     /\ \A a \in Ended("isAuthorized") : a.res = "false" /\ a.reqs = {}

\* C18, its case: isAuthorized() has returned false while the listeners are
\* those connect() leaves behind and no disconnect() has returned since.
C18_FalseWhileConnected ==
  /\ shimDisconnect /\ ~hasStorage
  /\ IsSome(Provider)
  /\ conn.pc = "idle"
  /\ lis["disconnect"] > 0
  /\ ~quiet
  /\ \E a \in Ended("isAuthorized") : a.res = "false"

\* The provider's chainChanged for the chain of call c is about to reach
\* onChainChanged, and the call's switch request has resolved.
MatchingChangePending(c) ==
  /\ sw[c].pc = "switching"
  /\ sw[c].reqDone
  /\ Dispatching
  /\ pend.ev = "chainChanged"
  /\ pend.num = sw[c].chainId

\* C19: a switchChain() call whose wallet_switchEthereumChain request has
\* resolved returns once the provider emits chainChanged with the requested
\* id, whatever 'change' events were emitted before.
C19_SwitchReturns ==
  \A c \in Callers : MatchingChangePending(c) ~> (sw[c].pc # "switching")

\* C19, its case: the matching chainChanged arrives after another 'change'
\* event has used up the call's once('change') handler.
C19_MatchingAfterOther ==
  \E c \in Callers :
     /\ MatchingChangePending(c)
     /\ ~sw[c].armed
     /\ ~sw[c].confirmed

\* C20: the provider holds at most one of the connector's handlers for each
\* of its events, so one provider event is delivered to the connector once.
C20_OneHandlerPerEvent == \A ev \in ProviderEvents : lis[ev] <= 1

\* C20, its case: one provider event has reached a handler that emitted
\* 'change', and the same event is still to be delivered to another handler
\* of the connector.
C20_DeliveredTwice ==
  /\ Dispatching
  /\ pend.n < lis[pend.ev]
  /\ \E h \in Ended("handler") : h.emitted.change > 0

\* The once('change') handler of call c is gone and the call still waits for
\* its chain.
HandlerUsedUp(c) ==
  /\ sw[c].pc = "switching"
  /\ sw[c].reqDone
  /\ ~sw[c].armed
  /\ ~sw[c].confirmed

\* No step, of the connector or of the provider, lets such a call go on.
UsedUpForGood ==
  [][\A c \in Callers : HandlerUsedUp(c) => sw'[c] = sw[c]]_vars

====
